---- MODULE Spec2Model ----
(***************************************************************************)
(* BTViz: the BLE session held by BTManager (btviz/core/__init__.py) and   *)
(* the DisplayWidget that subscribes to one characteristic                 *)
(* (btviz/display_widget.py).                                              *)
(*                                                                         *)
(* Every coroutine of BTManager is cut at its await on the transport: the  *)
(* part before the await is one atomic step (asyncio runs a coroutine      *)
(* without interruption until it awaits), the completion of the awaited    *)
(* transport call followed by the rest of the coroutine is a second step.  *)
(* The transport (bleak's BleakClient) is the environment: each of its     *)
(* calls may succeed or raise, and pending calls complete in any order.    *)
(***************************************************************************)
EXTENDS Integers, Sequences, FiniteSets, Bags, TLC

\* ---------------------------------------------------------------- bounds
MaxClients == 2      \* BleakClient objects constructed in one run
MaxTasks == 2        \* coroutines suspended at an await at the same time

\* ------------------------------------------------------------ vocabulary
None == "None"
\* the value None of BTManager.client (clients are numbered from 1)
NoClient == 0
Devices == {"d1", "d2"}
\* cN carries the notify property, cR is read-only
Chars == {"cN", "cR"}
Notifiable(ch) == ch = "cN"


VARIABLES
    instance,       \* BTManager._instance: None or "mgr"
    client,         \* BTManager.client: NoClient or the index of a BleakClient
    clients,        \* every BleakClient constructed so far
    tasks,          \* coroutines suspended at their await on the transport
    last,           \* the most recent step: the operation and what its caller got
    dw_open,        \* DisplayWidget: "none", "open" or "closed"
    dw_bt_manager,  \* DisplayWidget.bt_manager
    characteristic, \* DisplayWidget.characteristic
    isNotif,        \* DisplayWidget.isNotif
    start_notification_button,  \* enabled state of the button
    data_queues,    \* DisplayWidget.data_queues: one deque per channel
    isFirstPlot,    \* DisplayWidget.isFirstPlot
    stack,          \* activations of decodeRoutine stopped inside a nested event loop
    arrived,        \* notifications delivered to decodeRoutine so far
    applied,        \* per channel, the frame and value of every append since confirmValues
    aborted,        \* the process was ended by an exception that left a Qt slot
    allocated,      \* BTManager objects created by super().__new__ so far
    scanButton,     \* ScanWidget.scanButton: its text, or "disabled"
    devicesList,    \* ScanWidget.devicesList: the names listed
    currentItem,    \* ScanWidget.devicesList.currentItem(): None or a name
    sw_connectButton,   \* ScanWidget.connectButton is enabled
    cw_open,        \* ConnectWidget: "none", "open", "warning" or "closed"
    cw_device,      \* ConnectWidget.device
    cw_bt_manager,  \* ConnectWidget.bt_manager
    servicesList,   \* ConnectWidget.servicesList: the services listed
    cw_connectButton    \* ConnectWidget.connectButton is enabled

mgrVars == <<instance, client, clients, tasks>>
dwVars == <<dw_open, dw_bt_manager, characteristic, isNotif, start_notification_button>>
decVars == <<data_queues, isFirstPlot, stack, arrived, applied, aborted>>
uiVars == <<scanButton, devicesList, currentItem, sw_connectButton,
            cw_open, cw_device, cw_bt_manager, servicesList, cw_connectButton>>
vars == <<instance, client, clients, tasks, last,
          dw_open, dw_bt_manager, characteristic, isNotif, start_notification_button,
          data_queues, isFirstPlot, stack, arrived, applied, aborted, allocated,
          scanButton, devicesList, currentItem, sw_connectButton,
          cw_open, cw_device, cw_bt_manager, servicesList, cw_connectButton>>

\* ---------------------------------------------------------------- helpers
ClientIds == 1..Len(clients)
Linked == {c \in ClientIds : clients[c].linked}
Pending == BagToSet(tasks)
HasFreeTask == BagCardinality(tasks) < MaxTasks
Task(op, c, ch) == [op |-> op, c |-> c, ch |-> ch, raced |-> FALSE]
Resume(t) == tasks' = tasks (-) SetToBag({t})
\* raced, of a connect or read: disconnect_from_device was called while it was
\* pending; of a disconnect: another coroutine was pending when it was called,
\* or was started while it was pending
Raced(t) == IF t.op \in {"connect_to_device", "read_characteristic"}
            THEN [t EXCEPT !.raced = TRUE] ELSE t
Overlapped(t) == IF t.op = "disconnect_from_device" THEN [t EXCEPT !.raced = TRUE] ELSE t

\* the session is Ready when it holds a client whose link is established
Ready == client # NoClient /\ clients[client].linked

\* what the most recent step was: the operation, whether it was the part up to
\* the await ("call") or the part from the await on ("done"), and what the
\* caller got: "pending" (suspended at the await), a return or an exception
\* c is the BleakClient the step concerned and arg the device or characteristic
\* the caller passed
Event(op, phase, res, c, arg, raced) ==
    [op |-> op, phase |-> phase, res |-> res, c |-> c, arg |-> arg, raced |-> raced]

Suspend(op, ch) ==
    tasks' = BagOfAll(Overlapped, tasks) (+) SetToBag({Task(op, client, ch)})

\* ------------------------------------------------------------------- Init
\* the scan window as initUI leaves it, and no connect window
UiInit ==
    /\ scanButton = "Scan for Devices"
    /\ devicesList = {}
    /\ currentItem = None
    /\ sw_connectButton = TRUE
    /\ cw_open = "none"
    /\ cw_device = None
    /\ cw_bt_manager = None
    /\ servicesList = {}
    /\ cw_connectButton = FALSE

Init ==
    /\ allocated = 0
    /\ UiInit
    /\ instance = None
    /\ client = NoClient
    /\ clients = <<>>
    /\ tasks = EmptyBag
    /\ last = Event("init", "done", "ok", NoClient, None, FALSE)
    /\ dw_open = "none"
    /\ dw_bt_manager = None
    /\ characteristic = None
    /\ isNotif = FALSE
    /\ start_notification_button = FALSE
    /\ data_queues = <<>>
    /\ isFirstPlot = TRUE
    /\ stack = <<>>
    /\ arrived = 0
    /\ applied = <<>>
    /\ aborted = FALSE

\* ------------------------------------------------------------- BTManager
\* BTManager() with the initialisation of scanner and client outside the test
\* for an existing instance
BTManager_new_resetting ==
    /\ instance' = "mgr"
    /\ client' = NoClient
    /\ last' = Event("BTManager", "call", "ok", NoClient, None, FALSE)
    /\ UNCHANGED <<clients, tasks>>
    /\ UNCHANGED dwVars
    /\ UNCHANGED decVars
    /\ allocated' = IF instance = None THEN allocated + 1 ELSE allocated
    /\ UNCHANGED uiVars

\* BTManager(): __new__ creates the instance once, with client None
BTManager_new ==
    /\ instance' = "mgr"
    /\ client' = IF instance = None THEN NoClient ELSE client
    /\ last' = Event("BTManager", "call", "ok", NoClient, None, FALSE)
    /\ UNCHANGED <<clients, tasks>>
    /\ UNCHANGED dwVars
    /\ UNCHANGED decVars
    /\ allocated' = IF instance = None THEN allocated + 1 ELSE allocated
    /\ UNCHANGED uiVars

\* BTManager.instance(): cls() when no instance exists
BTManager_instance ==
    /\ instance' = "mgr"
    /\ client' = IF instance = None THEN NoClient ELSE client
    /\ last' = Event("instance", "call", "ok", NoClient, None, FALSE)
    /\ UNCHANGED <<clients, tasks>>
    /\ UNCHANGED dwVars
    /\ UNCHANGED decVars
    /\ allocated' = IF instance = None THEN allocated + 1 ELSE allocated
    /\ UNCHANGED uiVars

\* connect_to_device, up to its await: the new BleakClient becomes
\* self.client before the link is attempted. No operation of the session reads
\* the device back from the BleakClient, so the client record leaves it out and
\* the step records it in last.
connect_to_device(device) ==
    /\ instance # None
    /\ Len(clients) < MaxClients
    /\ HasFreeTask
    /\ clients' = Append(clients, [linked |-> FALSE, services |-> FALSE, handlers |-> {}])
    /\ client' = Len(clients) + 1
    /\ tasks' = BagOfAll(Overlapped, tasks)
                  (+) SetToBag({Task("connect_to_device", Len(clients) + 1, None)})
    /\ last' = Event("connect_to_device", "call", "pending", Len(clients) + 1, device, FALSE)
    /\ UNCHANGED instance
    /\ UNCHANGED dwVars
    /\ UNCHANGED decVars
    /\ UNCHANGED allocated
    /\ UNCHANGED uiVars

\* connect_to_device, from its await on: the transport established the link
\* (the coroutine returns) or raised (the coroutine raises "Could not connect")
connect_to_device_done(t, ok) ==
    /\ t.op = "connect_to_device"
    /\ clients' = IF ok
                  THEN [clients EXCEPT ![t.c].linked = TRUE,
                                       ![t.c].services = TRUE]
                  ELSE clients
    /\ Resume(t)
    /\ last' = Event("connect_to_device", "done", IF ok THEN "ok" ELSE "ConnectionError", t.c, None, t.raced)
    /\ UNCHANGED <<instance, client>>
    /\ UNCHANGED dwVars
    /\ UNCHANGED decVars
    /\ UNCHANGED allocated
    /\ UNCHANGED uiVars

\* disconnect_from_device as its sibling methods are written: raising
\* "No device connected" when client is None
disconnect_from_device_raising ==
    /\ instance # None
    /\ IF client # NoClient
       THEN /\ HasFreeTask
            /\ tasks' = BagOfAll(Raced, BagOfAll(Overlapped, tasks))
                         (+) SetToBag({[Task("disconnect_from_device", client, None)
                                           EXCEPT !.raced = tasks # EmptyBag]})
            /\ last' = Event("disconnect_from_device", "call", "pending", client, None, FALSE)
       ELSE /\ tasks' = tasks
            /\ last' = Event("disconnect_from_device", "call", "NotConnected", NoClient, None, FALSE)
    /\ UNCHANGED <<instance, client, clients>>
    /\ UNCHANGED dwVars
    /\ UNCHANGED decVars
    /\ UNCHANGED allocated
    /\ UNCHANGED uiVars

\* disconnect_from_device, up to its await (or to its end when client is None)
disconnect_from_device ==
    /\ instance # None
    /\ IF client # NoClient
       THEN /\ HasFreeTask
            /\ tasks' = BagOfAll(Raced, BagOfAll(Overlapped, tasks))
                         (+) SetToBag({[Task("disconnect_from_device", client, None)
                                           EXCEPT !.raced = tasks # EmptyBag]})
            /\ last' = Event("disconnect_from_device", "call", "pending", client, None, FALSE)
       ELSE /\ tasks' = tasks
            /\ last' = Event("disconnect_from_device", "call", "ok", NoClient, None, FALSE)
    /\ UNCHANGED <<instance, client, clients>>
    /\ UNCHANGED dwVars
    /\ UNCHANGED decVars
    /\ UNCHANGED allocated
    /\ UNCHANGED uiVars

\* disconnect_from_device, from its await on: when the transport call returns
\* the coroutine sets client to None; when it raises, the assignment is skipped.
\* A disconnect that raised may or may not have dropped the link.
disconnect_from_device_done(t, ok, dropped) ==
    /\ t.op = "disconnect_from_device"
    /\ ok => dropped
    /\ clients' = IF dropped
                  THEN [clients EXCEPT ![t.c].linked = FALSE,
                                       ![t.c].handlers = {}]
                  ELSE clients
    /\ client' = IF ok THEN NoClient ELSE client
    /\ Resume(t)
    /\ last' = Event("disconnect_from_device", "done", IF ok THEN "ok" ELSE "TransportError", t.c, None, t.raced)
    /\ UNCHANGED instance
    /\ UNCHANGED dwVars
    /\ UNCHANGED decVars
    /\ UNCHANGED allocated
    /\ UNCHANGED uiVars

\* get_services giving the client up when its services are not resolved
get_services_clearing ==
    /\ instance # None
    /\ last' = Event("get_services", "call", IF client = NoClient THEN "NotConnected"
                     ELSE IF clients[client].services THEN "ok" ELSE "DiscoveryError", client, None, FALSE)
    /\ client' = IF client # NoClient /\ ~clients[client].services THEN NoClient ELSE client
    /\ UNCHANGED <<instance, clients, tasks>>
    /\ UNCHANGED dwVars
    /\ UNCHANGED decVars
    /\ UNCHANGED allocated
    /\ UNCHANGED uiVars

\* get_services: no await; client.services raises BleakError until the
\* services of that client have been resolved
get_services ==
    /\ instance # None
    /\ last' = Event("get_services", "call", IF client = NoClient THEN "NotConnected"
                     ELSE IF clients[client].services THEN "ok" ELSE "DiscoveryError", client, None, FALSE)
    /\ UNCHANGED mgrVars
    /\ UNCHANGED dwVars
    /\ UNCHANGED decVars
    /\ UNCHANGED allocated
    /\ UNCHANGED uiVars

\* get_characteristics: no await, no transport call
get_characteristics ==
    /\ instance # None
    /\ last' = Event("get_characteristics", "call", IF client = NoClient THEN "NotConnected" ELSE "ok", client, None, FALSE)
    /\ UNCHANGED mgrVars
    /\ UNCHANGED dwVars
    /\ UNCHANGED decVars
    /\ UNCHANGED allocated
    /\ UNCHANGED uiVars

\* read_characteristic, up to its await. The outcome of the transport's read
\* does not depend on the characteristic, which only the call step records.
read_characteristic(ch) ==
    /\ instance # None
    /\ IF client # NoClient
       THEN /\ HasFreeTask
            /\ Suspend("read_characteristic", None)
            /\ last' = Event("read_characteristic", "call", "pending", client, ch, FALSE)
       ELSE /\ tasks' = tasks
            /\ last' = Event("read_characteristic", "call", "NotConnected", NoClient, ch, FALSE)
    /\ UNCHANGED <<instance, client, clients>>
    /\ UNCHANGED dwVars
    /\ UNCHANGED decVars
    /\ UNCHANGED allocated
    /\ UNCHANGED uiVars

\* read_characteristic, from its await on: the transport answers with the value
\* while the link is up, and raises otherwise
read_characteristic_done(t, ok) ==
    /\ t.op = "read_characteristic"
    /\ ok => clients[t.c].linked
    /\ Resume(t)
    /\ last' = Event("read_characteristic", "done", IF ok THEN "data" ELSE "TransportError", t.c, t.ch, t.raced)
    /\ UNCHANGED <<instance, client, clients>>
    /\ UNCHANGED dwVars
    /\ UNCHANGED decVars
    /\ UNCHANGED allocated
    /\ UNCHANGED uiVars

\* ------------------------------------------------------------- transport
\* BleakClient.start_notify: raises on a client whose link is down and on a
\* characteristic without the notify property; may raise on any call
start_notify_result(c, ch, ok) ==
    IF ~clients[c].linked THEN "TransportError"
    ELSE IF ~Notifiable(ch) THEN "NotSubscribable"
    ELSE IF ok THEN "ok" ELSE "TransportError"

\* BleakClient.stop_notify: raises when the link is down or no notification
\* was started on the characteristic
stop_notify_result(c, ch, ok) ==
    IF clients[c].linked /\ ch \in clients[c].handlers /\ ok THEN "ok" ELSE "TransportError"

\* --------------------------------------------------------- BTManager (2)
\* start_notify, up to its await
start_notify(ch) ==
    IF client # NoClient
    THEN /\ HasFreeTask
         /\ Suspend("start_notify", ch)
         /\ last' = Event("start_notify", "call", "pending", client, ch, FALSE)
    ELSE /\ tasks' = tasks
         /\ last' = Event("start_notify", "call", "NotConnected", NoClient, ch, FALSE)

\* stop_notify, up to its await
stop_notify(ch) ==
    IF client # NoClient
    THEN /\ HasFreeTask
         /\ Suspend("stop_notify", ch)
         /\ last' = Event("stop_notify", "call", "pending", client, ch, FALSE)
    ELSE /\ tasks' = tasks
         /\ last' = Event("stop_notify", "call", "NotConnected", NoClient, ch, FALSE)

\* --------------------------------------------------------- DisplayWidget
\* DisplayWidget.__init__: takes the manager from BTManager.instance()
DisplayWidget_init(ch) ==
    /\ dw_open = "none"
    /\ instance' = "mgr"
    /\ client' = IF instance = None THEN NoClient ELSE client
    /\ dw_open' = "open"
    /\ dw_bt_manager' = "mgr"
    /\ characteristic' = ch
    /\ isNotif' = FALSE
    /\ start_notification_button' = TRUE
    /\ data_queues' = <<>>
    /\ isFirstPlot' = TRUE
    /\ last' = Event("DisplayWidget", "call", "ok", NoClient, ch, FALSE)
    /\ UNCHANGED <<clients, tasks>>
    /\ UNCHANGED <<stack, arrived, applied, aborted>>
    /\ allocated' = IF instance = None THEN allocated + 1 ELSE allocated
    /\ UNCHANGED uiVars

\* enableNotification setting isNotif whether or not start_notify raised
enableNotification_resume_always(res) == TRUE

\* enableNotification, from the await on start_notify on: isNotif is set only
\* when start_notify returned; an exception is caught and reported
enableNotification_resume(res) == IF res = "ok" THEN TRUE ELSE isNotif

\* enableNotification, up to the await inside start_notify: the button is
\* disabled and never enabled again
enableNotification ==
    /\ dw_open = "open"
    /\ start_notification_button
    /\ dw_bt_manager # None
    /\ start_notification_button' = FALSE
    /\ start_notify(characteristic)
    /\ UNCHANGED <<instance, client, clients>>
    /\ UNCHANGED <<dw_open, dw_bt_manager, characteristic, isNotif>>
    /\ UNCHANGED decVars
    /\ UNCHANGED allocated
    /\ UNCHANGED uiVars

\* start_notify and enableNotification, from the await on
start_notify_done(t, ok) ==
    /\ t.op = "start_notify"
    /\ LET res == start_notify_result(t.c, t.ch, ok) IN
       /\ clients' = IF res = "ok"
                     THEN [clients EXCEPT ![t.c].handlers = @ \cup {t.ch}]
                     ELSE clients
       /\ isNotif' = enableNotification_resume(res)
       /\ last' = Event("start_notify", "done", res, t.c, t.ch, t.raced)
    /\ Resume(t)
    /\ UNCHANGED <<instance, client>>
    /\ UNCHANGED <<dw_open, dw_bt_manager, characteristic, start_notification_button>>
    /\ UNCHANGED decVars
    /\ UNCHANGED allocated
    /\ UNCHANGED uiVars

\* DisplayWidget.closeEvent, up to the await inside stop_notify
closeEvent ==
    /\ dw_open = "open"
    /\ dw_open' = "closed"
    /\ IF isNotif
       THEN stop_notify(characteristic)
       ELSE /\ tasks' = tasks
            /\ last' = Event("closeEvent", "call", "ok", NoClient, characteristic, FALSE)
    /\ UNCHANGED <<instance, client, clients>>
    /\ UNCHANGED <<dw_bt_manager, characteristic, isNotif, start_notification_button>>
    /\ UNCHANGED decVars
    /\ UNCHANGED allocated
    /\ UNCHANGED uiVars

\* stop_notify and closeEvent, from the await on
stop_notify_done(t, ok) ==
    /\ t.op = "stop_notify"
    /\ LET res == stop_notify_result(t.c, t.ch, ok) IN
       /\ clients' = IF res = "ok"
                     THEN [clients EXCEPT ![t.c].handlers = @ \ {t.ch}]
                     ELSE clients
       /\ last' = Event("stop_notify", "done", res, t.c, t.ch, t.raced)
    /\ Resume(t)
    /\ UNCHANGED <<instance, client>>
    /\ UNCHANGED dwVars
    /\ UNCHANGED decVars
    /\ UNCHANGED allocated
    /\ UNCHANGED uiVars

\* ------------------------------------------------------- decoding: values
\* maxlen of every deque of data_queues, and the number of zeros it starts with
Capacity == 100
\* notifications delivered in one run
MaxFrames == 3
\* notifications of the counting stream delivered in one run
MaxAppends == 150

\* a notification value is a sequence of characters: decimal digits, the comma,
\* NUL (the character '\x00'), a letter, and BAD (a byte that is not valid UTF-8)
Digits == <<"0", "1", "2", "3", "4", "5", "6", "7", "8", "9">>
Comma == ","
\* the values the device sends: "1", "1,2", "3\x00,4", "x,5", and an invalid one
Payloads == { <<"1">>,
              <<"1", ",", "2">>,
              <<"3", "NUL", ",", "4">>,
              <<"x", ",", "5">>,
              <<"BAD">> }
\* the values of the spin box the user confirms
Counts == {1, 2}

\* value.decode("UTF-8"): raises on a byte that is not valid UTF-8
ValidUtf8(value) == \A k \in 1..Len(value) : value[k] # "BAD"

\* decoded_str.split(","): the pieces between the commas; a string without a
\* comma, the empty one included, gives one piece
RECURSIVE split(_)
split(str) ==
    IF \A k \in 1..Len(str) : str[k] # Comma
    THEN <<str>>
    ELSE LET k == CHOOSE i \in 1..Len(str) :
                      str[i] = Comma /\ \A j \in 1..(i - 1) : str[j] # Comma
         IN <<SubSeq(str, 1, k - 1)>> \o split(SubSeq(str, k + 1, Len(str)))

\* decoded_item.replace('\x00', '')
replace_NUL(item) == SelectSeq(item, LAMBDA ch : ch # "NUL")

DigitValue(ch) == (CHOOSE d \in 1..Len(Digits) : Digits[d] = ch) - 1
IsDigit(ch) == \E d \in 1..Len(Digits) : Digits[d] = ch

\* float(s) raises on the empty string and on a string with a character that is
\* no digit
Parses(s) == Len(s) > 0 /\ \A k \in 1..Len(s) : IsDigit(s[k])
RECURSIVE float(_)
float(s) ==
    IF Len(s) = 0 THEN 0
    ELSE 10 * float(SubSeq(s, 1, Len(s) - 1)) + DigitValue(s[Len(s)])

\* str(k) of a natural number
RECURSIVE str(_)
str(k) == IF k < 10 THEN <<Digits[k + 1]>>
          ELSE str(k \div 10) \o <<Digits[(k % 10) + 1]>>

\* the value of the counting stream's frame k on n channels: "k,k,...,k"
RECURSIVE StreamValue(_, _)
StreamValue(k, n) == IF n = 1 THEN str(k)
                     ELSE StreamValue(k, n - 1) \o <<Comma>> \o str(k)

\* deque([0] * 100, maxlen=100)
deque_empty == <<>>
deque_filled == [k \in 1..Capacity |-> 0]

\* deque.append on a deque at its maxlen discarding the new item
append_keep_old(q, v) == IF Len(q) >= Capacity THEN q ELSE Append(q, v)

\* deque.append on a deque without maxlen
append_unbounded(q, v) == Append(q, v)

\* deque.append: a deque at its maxlen drops its leftmost item
append(q, v) == IF Len(q) >= Capacity THEN Append(Tail(q), v) ELSE Append(q, v)

\* ------------------------------------------------- decoding: decodeRoutine
\* QMessageBox.warning and the processEvents loop of qasync.asyncClose run the
\* Qt event loop inside decodeRoutine: notifications that arrive meanwhile are
\* delivered to a new activation of decodeRoutine on top of the stopped one,
\* and the stopped one goes on only after every activation above it returned.
\* An activation is stopped at pc: in the dialog of the UTF-8 error
\* ("decode_warning"), in self.close() ("closing"), in the dialog of the length
\* check ("mismatch_warning") or in the dialog of token idx ("token_warning").
Activation(frame, decoded_list, pc, idx) ==
    [frame |-> frame, decoded_list |-> decoded_list, pc |-> pc, idx |-> idx]
Top == stack[Len(stack)]
Below == SubSeq(stack, 1, Len(stack) - 1)
Dialogs == {"decode_warning", "mismatch_warning", "token_warning"}

\* the notification handler of the widget's characteristic is registered on a
\* linked client
Subscribed == \E c \in Linked : characteristic \in clients[c].handlers

\* confirmValues creating the deques empty
new_queues_empty(num_values) == [i \in 1..num_values |-> deque_empty]

\* [deque([0] * 100, maxlen=100) for _ in range(num_values)]
new_queues(num_values) == [i \in 1..num_values |-> deque_filled]

\* where a run of decodeRoutine got to: the buffers, the appends made, the
\* activation it left on the stack (none when it returned)
Outcome(dq, ap, act, res) == [dq |-> dq, ap |-> ap, act |-> act, res |-> res]

\* the for loop of decodeRoutine from token idx on: a token that parses is
\* appended to the deque of its index, one that does not stops the loop in a
\* dialog, after which the loop goes on with the next token
RECURSIVE token_loop(_, _, _, _, _)
token_loop(frame, decoded_list, idx, dq, ap) ==
    IF idx > Len(decoded_list)
    THEN Outcome(dq, ap, <<>>, "returned")
    ELSE IF ~Parses(replace_NUL(decoded_list[idx]))
    THEN Outcome(dq, ap, <<Activation(frame, decoded_list, "token_warning", idx)>>,
                 "token_warning")
    ELSE LET v == float(replace_NUL(decoded_list[idx])) IN
         token_loop(frame, decoded_list, idx + 1,
                    [dq EXCEPT ![idx] = append(@, v)],
                    [ap EXCEPT ![idx] = Append(@, [frame |-> frame, value |-> v])])

\* decodeRoutine without the comparison of the two lengths: tokens are appended
\* as far as there are deques
length_check_none(frame, decoded_list) ==
    token_loop(frame,
               SubSeq(decoded_list, 1, IF Len(decoded_list) < Len(data_queues)
                                       THEN Len(decoded_list) ELSE Len(data_queues)),
               1, data_queues, applied)

\* decodeRoutine taking the number of channels from the first value it gets
length_check_inferring(frame, decoded_list) ==
    IF data_queues = <<>>
    THEN token_loop(frame, decoded_list, 1, new_queues(Len(decoded_list)),
                    [i \in 1..Len(decoded_list) |-> <<>>])
    ELSE IF Len(decoded_list) # Len(data_queues)
    THEN Outcome(data_queues, applied,
                 <<Activation(frame, decoded_list, "mismatch_warning", 0)>>,
                 "mismatch_warning")
    ELSE token_loop(frame, decoded_list, 1, data_queues, applied)

\* decodeRoutine from the comparison of len(decoded_list) with
\* len(self.data_queues) on
length_check(frame, decoded_list) ==
    IF Len(decoded_list) # Len(data_queues)
    THEN Outcome(data_queues, applied,
                 <<Activation(frame, decoded_list, "mismatch_warning", 0)>>,
                 "mismatch_warning")
    ELSE token_loop(frame, decoded_list, 1, data_queues, applied)

\* a run of decodeRoutine ends in r, on top of the activations in below
Ends(r, below, phase, arg) ==
    /\ data_queues' = r.dq
    /\ applied' = r.ap
    /\ stack' = below \o r.act
    /\ last' = Event("decodeRoutine", phase, r.res, client, arg, FALSE)

\* a notification with this value is delivered: decodeRoutine runs up to its
\* first dialog or to its end
decodeRoutine(value) ==
    /\ ~aborted
    /\ Subscribed
    /\ arrived' = arrived + 1
    /\ IF ValidUtf8(value)
       THEN Ends(length_check(arrived + 1, split(value)), stack, "call", value)
       ELSE Ends(Outcome(data_queues, applied,
                         <<Activation(arrived + 1, <<>>, "decode_warning", 0)>>,
                         "decode_warning"),
                 stack, "call", value)
    /\ UNCHANGED mgrVars
    /\ UNCHANGED dwVars
    /\ UNCHANGED <<isFirstPlot, aborted>>
    /\ UNCHANGED allocated
    /\ UNCHANGED uiVars

\* the user closes the dialog of the length check or of a token: the topmost
\* activation returns, or goes on with the next token
dismiss ==
    /\ ~aborted
    /\ stack # <<>>
    /\ Top.pc \in {"mismatch_warning", "token_warning"}
    /\ IF Top.pc = "mismatch_warning"
       THEN Ends(Outcome(data_queues, applied, <<>>, "returned"),
                 Below, "resume", Top.decoded_list)
       ELSE Ends(token_loop(Top.frame, Top.decoded_list, Top.idx + 1, data_queues, applied),
                 Below, "resume", Top.decoded_list)
    /\ UNCHANGED mgrVars
    /\ UNCHANGED dwVars
    /\ UNCHANGED <<isFirstPlot, arrived, aborted>>
    /\ UNCHANGED allocated
    /\ UNCHANGED uiVars

\* the user closes the dialog of the UTF-8 error: decodeRoutine calls
\* self.close(). A close() inside a close() of the same widget returns at once;
\* otherwise closeEvent runs, calls stop_notify when isNotif, and asyncClose
\* runs the event loop until the coroutine of closeEvent is done
dismiss_close ==
    /\ ~aborted
    /\ stack # <<>>
    /\ Top.pc = "decode_warning"
    /\ IF \E k \in 1..Len(stack) : stack[k].pc = "closing"
       THEN /\ Ends(length_check(Top.frame, Top.decoded_list), Below, "resume",
                    Top.decoded_list)
            /\ tasks' = tasks
       ELSE /\ IF isNotif
               THEN stop_notify(characteristic)
               ELSE /\ tasks' = tasks
                    /\ last' = Event("closeEvent", "call", "ok", NoClient, characteristic, FALSE)
            /\ stack' = Below \o <<Activation(Top.frame, Top.decoded_list, "closing", 0)>>
            /\ UNCHANGED <<data_queues, applied>>
    /\ UNCHANGED <<instance, client, clients>>
    /\ UNCHANGED dwVars
    /\ UNCHANGED <<isFirstPlot, arrived, aborted>>
    /\ UNCHANGED allocated
    /\ UNCHANGED uiVars

\* the coroutine of closeEvent is done and every activation above the closing
\* one has returned: close() hides the widget and returns, decodeRoutine goes on
\* with the length check of its empty decoded_list
close_return ==
    /\ ~aborted
    /\ stack # <<>>
    /\ Top.pc = "closing"
    /\ \A t \in Pending : t.op # "stop_notify"
    /\ dw_open' = "closed"
    /\ Ends(length_check(Top.frame, Top.decoded_list), Below, "resume", Top.decoded_list)
    /\ UNCHANGED mgrVars
    /\ UNCHANGED <<dw_bt_manager, characteristic, isNotif, start_notification_button>>
    /\ UNCHANGED <<isFirstPlot, arrived, aborted>>
    /\ UNCHANGED allocated
    /\ UNCHANGED uiVars

\* ------------------------------------------------- decoding: confirmValues
\* the user presses "Confirm number of values" with num_values in the spin box
\* (no dialog is open then: a dialog blocks the window). The deques are
\* replaced first. On the first call
\* plt.subplots returns a single Axes when there is one deque, and
\* self.axes[-1] raises TypeError out of the slot before isFirstPlot is
\* cleared: PyQt5 then ends the process or, with an exception hook or an old
\* PyQt5, prints the exception and goes on.
confirmValues(num_values) ==
    /\ ~aborted
    /\ dw_open = "open"
    /\ \A k \in 1..Len(stack) : stack[k].pc \notin Dialogs
    /\ data_queues' = new_queues(num_values)
    /\ applied' = [i \in 1..num_values |-> <<>>]
    /\ IF isFirstPlot /\ num_values = 1
       THEN /\ aborted' \in BOOLEAN
            /\ isFirstPlot' = isFirstPlot
            /\ last' = Event("confirmValues", "call", "TypeError", client, None, FALSE)
       ELSE /\ aborted' = aborted
            /\ isFirstPlot' = FALSE
            /\ last' = Event("confirmValues", "call", "ok", client, None, FALSE)
    /\ UNCHANGED mgrVars
    /\ UNCHANGED dwVars
    /\ UNCHANGED <<stack, arrived>>
    /\ UNCHANGED allocated
    /\ UNCHANGED uiVars

Next ==
    \/ BTManager_new
    \/ BTManager_instance
    \/ \E d \in Devices : connect_to_device(d)
    \/ \E t \in Pending, ok \in BOOLEAN : connect_to_device_done(t, ok)
    \/ disconnect_from_device
    \/ \E t \in Pending, ok \in BOOLEAN, dropped \in BOOLEAN : disconnect_from_device_done(t, ok, dropped)
    \/ get_services
    \/ get_characteristics
    \/ \E ch \in Chars : read_characteristic(ch)
    \/ \E t \in Pending, ok \in BOOLEAN : read_characteristic_done(t, ok)
    \/ \E ch \in Chars : DisplayWidget_init(ch)
    \/ enableNotification
    \/ \E t \in Pending, ok \in BOOLEAN : start_notify_done(t, ok)
    \/ closeEvent
    \/ \E t \in Pending, ok \in BOOLEAN : stop_notify_done(t, ok)

Spec == Init /\ [][Next]_vars

\* ------------------------------------------------- decoding: specifications
\* the state in which notifications start to arrive: the manager exists, the
\* widget of the notifying characteristic is open, the link is up and
\* enableNotification has succeeded
InitDecode ==
    /\ allocated = 1
    /\ UiInit
    /\ instance = "mgr"
    /\ client = 1
    /\ clients = <<[linked |-> TRUE, services |-> TRUE, handlers |-> {"cN"}]>>
    /\ tasks = EmptyBag
    /\ last = Event("start_notify", "done", "ok", 1, "cN", FALSE)
    /\ dw_open = "open"
    /\ dw_bt_manager = "mgr"
    /\ characteristic = "cN"
    /\ isNotif = TRUE
    /\ start_notification_button = FALSE
    /\ data_queues = <<>>
    /\ isFirstPlot = TRUE
    /\ stack = <<>>
    /\ arrived = 0
    /\ applied = <<>>
    /\ aborted = FALSE

\* the device sends any of Payloads, at most MaxFrames times
Notify == arrived < MaxFrames /\ \E value \in Payloads : decodeRoutine(value)

NextDecode ==
    \/ Notify
    \/ dismiss
    \/ dismiss_close
    \/ close_return
    \/ \E num_values \in Counts : confirmValues(num_values)
    \/ \E t \in Pending, ok \in BOOLEAN : stop_notify_done(t, ok)

SpecDecode == InitDecode /\ [][NextDecode]_vars

\* ------------------------------------------------- the counting stream
\* the state after confirmValues(n) in InitDecode (for n = 1 the call ended in
\* the TypeError and the process went on)
InitFifo ==
    /\ allocated = 1
    /\ UiInit
    /\ instance = "mgr"
    /\ client = 1
    /\ clients = <<[linked |-> TRUE, services |-> TRUE, handlers |-> {"cN"}]>>
    /\ tasks = EmptyBag
    /\ dw_open = "open"
    /\ dw_bt_manager = "mgr"
    /\ characteristic = "cN"
    /\ isNotif = TRUE
    /\ start_notification_button = FALSE
    /\ stack = <<>>
    /\ arrived = 0
    /\ aborted = FALSE
    /\ \E n \in Counts :
         /\ data_queues = new_queues(n)
         /\ applied = [i \in 1..n |-> <<>>]
         /\ isFirstPlot = (n = 1)
         /\ last = Event("confirmValues", "call", IF n = 1 THEN "TypeError" ELSE "ok",
                         1, None, FALSE)

\* the device sends "k,...,k" as its k-th value, one token per confirmed channel
NotifyStream ==
    /\ arrived < MaxAppends
    /\ decodeRoutine(StreamValue(arrived + 1, Len(data_queues)))

NextFifo == NotifyStream

SpecFifo == InitFifo /\ [][NextFifo]_vars

\* ------------------------------------------- ScanWidget and ConnectWidget
\* no dialog of the connect window is open (it would block the scan window)
\* and the process is running
Interactive == ~aborted /\ cw_open # "warning"

\* ScanWidget.scanDevices, up to the await inside scan_devices: the button is
\* disabled and the scanner is started
scanDevices ==
    /\ Interactive
    /\ scanButton = "Scan for Devices"
    /\ HasFreeTask
    /\ scanButton' = "disabled"
    /\ Suspend("scan_devices", None)
    /\ last' = Event("scan_devices", "call", "pending", client, None, FALSE)
    /\ UNCHANGED <<instance, client, clients>>
    /\ UNCHANGED dwVars
    /\ UNCHANGED decVars
    /\ UNCHANGED allocated
    /\ UNCHANGED <<devicesList, currentItem, sw_connectButton,
                   cw_open, cw_device, cw_bt_manager, servicesList, cw_connectButton>>

\* scan_devices and scanDevices, from the await on: the names found are added
\* to the list, the scan button becomes "Clear All" and the connect button is
\* enabled; when the scanner raises, the coroutine ends and the scan button
\* stays disabled
scanDevices_done(t, found, ok) ==
    /\ ~aborted
    /\ t.op = "scan_devices"
    /\ Resume(t)
    /\ IF ok
       THEN /\ devicesList' = devicesList \cup found
            /\ scanButton' = "Clear All"
            /\ sw_connectButton' = TRUE
            /\ last' = Event("scan_devices", "done", "ok", t.c, None, t.raced)
       ELSE /\ UNCHANGED <<devicesList, scanButton, sw_connectButton>>
            /\ last' = Event("scan_devices", "done", "TransportError", t.c, None, t.raced)
    /\ UNCHANGED <<instance, client, clients>>
    /\ UNCHANGED dwVars
    /\ UNCHANGED decVars
    /\ UNCHANGED allocated
    /\ UNCHANGED <<currentItem, cw_open, cw_device, cw_bt_manager, servicesList,
                   cw_connectButton>>

\* the user selects a name of the device list
selectItem(name) ==
    /\ Interactive
    /\ name \in devicesList
    /\ currentItem' = name
    /\ last' = Event("selectItem", "call", "ok", client, name, FALSE)
    /\ UNCHANGED mgrVars
    /\ UNCHANGED dwVars
    /\ UNCHANGED decVars
    /\ UNCHANGED allocated
    /\ UNCHANGED <<scanButton, devicesList, sw_connectButton,
                   cw_open, cw_device, cw_bt_manager, servicesList, cw_connectButton>>

\* ScanWidget.clearAll: the "Clear All" button is pressed
clearAll ==
    /\ Interactive
    /\ scanButton = "Clear All"
    /\ devicesList' = {}
    /\ currentItem' = None
    /\ scanButton' = "Scan for Devices"
    /\ sw_connectButton' = FALSE
    /\ last' = Event("clearAll", "call", "ok", client, None, FALSE)
    /\ UNCHANGED mgrVars
    /\ UNCHANGED dwVars
    /\ UNCHANGED decVars
    /\ UNCHANGED allocated
    /\ UNCHANGED <<cw_open, cw_device, cw_bt_manager, servicesList, cw_connectButton>>

\* ScanWidget.scanServices: "Connect to Device" is pressed. With no item
\* selected currentItem() is None and .text() raises out of the slot (PyQt5
\* ends the process or prints the exception). Otherwise ConnectWidget(device)
\* is constructed: its bt_manager is None, its connect button is enabled, and
\* its __init__ schedules ConnectWidget.scanServices, which runs before any
\* further input is handled.
ScanWidget_scanServices ==
    /\ Interactive
    /\ sw_connectButton
    /\ cw_open \in {"none", "closed"}
    /\ IF currentItem = None
       THEN /\ aborted' \in BOOLEAN
            /\ last' = Event("ScanWidget.scanServices", "call", "AttributeError",
                             client, None, FALSE)
            /\ UNCHANGED <<cw_open, cw_device, cw_bt_manager, servicesList,
                           cw_connectButton>>
       ELSE /\ aborted' = aborted
            /\ cw_open' = "open"
            /\ cw_device' = currentItem
            /\ cw_bt_manager' = None
            /\ servicesList' = {}
            /\ cw_connectButton' = TRUE
            /\ last' = Event("ConnectWidget", "call", "ok", client, currentItem, FALSE)
    /\ UNCHANGED mgrVars
    /\ UNCHANGED dwVars
    /\ UNCHANGED <<data_queues, isFirstPlot, stack, arrived, applied>>
    /\ UNCHANGED allocated
    /\ UNCHANGED <<scanButton, devicesList, currentItem, sw_connectButton>>

\* ConnectWidget.scanServices: the button is disabled; self.bt_manager is None
\* (line 14 is its only assignment before this call), so evaluating
\* self.bt_manager.connect_to_device raises AttributeError before the manager
\* is called; the except branch opens the "Unable to connect" dialog
ConnectWidget_scanServices ==
    /\ ~aborted
    /\ cw_open = "open"
    /\ cw_device # None
    /\ cw_bt_manager = None
    /\ cw_connectButton' = FALSE
    /\ cw_open' = "warning"
    /\ last' = Event("ConnectWidget.scanServices", "call", "AttributeError",
                     client, cw_device, FALSE)
    /\ UNCHANGED mgrVars
    /\ UNCHANGED dwVars
    /\ UNCHANGED decVars
    /\ UNCHANGED allocated
    /\ UNCHANGED <<scanButton, devicesList, currentItem, sw_connectButton,
                   cw_device, cw_bt_manager, servicesList>>

\* the user closes the "Unable to connect" dialog: scanServices calls
\* self.close(); ConnectWidget.closeEvent finds bt_manager None and does not
\* call the manager
ConnectWidget_closeEvent ==
    /\ ~aborted
    /\ cw_open = "warning"
    /\ cw_bt_manager = None
    /\ cw_open' = "closed"
    /\ last' = Event("ConnectWidget.closeEvent", "call", "ok", client, cw_device, FALSE)
    /\ UNCHANGED mgrVars
    /\ UNCHANGED dwVars
    /\ UNCHANGED decVars
    /\ UNCHANGED allocated
    /\ UNCHANGED <<scanButton, devicesList, currentItem, sw_connectButton,
                   cw_device, cw_bt_manager, servicesList, cw_connectButton>>

\* the application as main.py starts it: ScanWidget() has taken the manager
\* from BTManager().instance()
InitConnect ==
    /\ instance = "mgr"
    /\ allocated = 1
    /\ client = NoClient
    /\ clients = <<>>
    /\ tasks = EmptyBag
    /\ last = Event("ScanWidget", "call", "ok", NoClient, None, FALSE)
    /\ dw_open = "none"
    /\ dw_bt_manager = None
    /\ characteristic = None
    /\ isNotif = FALSE
    /\ start_notification_button = FALSE
    /\ data_queues = <<>>
    /\ isFirstPlot = TRUE
    /\ stack = <<>>
    /\ arrived = 0
    /\ applied = <<>>
    /\ aborted = FALSE
    /\ UiInit

NextConnect ==
    \/ scanDevices
    \/ \E t \in Pending, found \in SUBSET Devices, ok \in BOOLEAN : scanDevices_done(t, found, ok)
    \/ \E name \in Devices : selectItem(name)
    \/ clearAll
    \/ ScanWidget_scanServices
    \/ ConnectWidget_scanServices
    \/ ConnectWidget_closeEvent

SpecConnect == InitConnect /\ [][NextConnect]_vars


\* ======================================================================
\* Claims
\* ======================================================================

\* C1: a connect called while the session holds a client (no disconnect since
\* the earlier connect) fails with AlreadyConnected and leaves the session's
\* client, and the set of clients, as they were.
C1_SecondConnectRejected ==
    [][(last'.op = "connect_to_device" /\ last'.phase = "call" /\ client # NoClient)
         => (last'.res = "AlreadyConnected" /\ client' = client /\ clients' = clients)]_vars

\* C2: at any time at most one client has an established transport link.
C2_AtMostOneLinked == Cardinality(Linked) <= 1

\* C3: when the transport fails during connect, connect raises a connection
\* error and the session holds no client afterwards.
C3_FailedConnectDisconnected ==
    (last.op = "connect_to_device" /\ last.phase = "done" /\ last.res = "ConnectionError")
        => client = NoClient

\* C4: whenever disconnect returns or raises, from whatever state it was
\* called, the session holds no client.
C4_DisconnectAlwaysDisconnected ==
    (last.op = "disconnect_from_device" /\ last.res # "pending") => client = NoClient

\* C5: once a disconnect that overlapped no other coroutine has returned, no
\* subscription remains: the widget's isNotif flag is cleared and no client has
\* a notification handler installed.
C5_DisconnectDestroysSubscriptions ==
    (last.op = "disconnect_from_device" /\ last.res = "ok" /\ ~last.raced)
        => (~isNotif /\ \A c \in ClientIds : clients[c].handlers = {})

\* C6: disconnect called while the session holds no client returns without an
\* error, suspends on no transport call and changes nothing of the session or
\* the widget.
C6_DisconnectIdempotent ==
    [][(last'.op = "disconnect_from_device" /\ last'.phase = "call" /\ client = NoClient)
         => (/\ last'.res = "ok"
             /\ tasks' = tasks
             /\ UNCHANGED <<instance, client, clients>>
             /\ UNCHANGED dwVars)]_vars

\* a disconnect called after an earlier session was closed: the session had a
\* client before and holds none now
C6_Witness ==
    /\ last.op = "disconnect_from_device" /\ last.phase = "call" /\ last.res = "ok"
    /\ Len(clients) > 0
    /\ client = NoClient

\* C7: a read that was pending when disconnect was called ends with an error,
\* never with data, and a read called while the session holds no client fails
\* with NotConnected.
C7_RacedReadFails ==
    /\ (last.op = "read_characteristic" /\ last.phase = "done" /\ last.raced)
           => last.res \in {"ConnectionLost", "TransportError"}
    /\ (last.op = "read_characteristic" /\ last.phase = "call" /\ client = NoClient)
           => last.res = "NotConnected"

\* C8: a connect that was in flight when disconnect was called fails, and once
\* no coroutine is pending the session and the transport agree: every linked
\* client is the session's client.
C8_RacedConnectFails ==
    /\ (last.op = "connect_to_device" /\ last.phase = "done" /\ last.raced)
           => last.res \in {"ConnectionLost", "ConnectionError"}
    /\ tasks = EmptyBag => \A c \in Linked : c = client

\* C9: get_characteristics, start_notify and read_characteristic called while
\* the session is not Ready (no client, or a client whose link is not
\* established) fail with NotConnected and suspend on no transport call.
C9_NotReadyRejected ==
    [][(/\ last'.op \in {"get_characteristics", "start_notify", "read_characteristic"}
        /\ last'.phase = "call"
        /\ ~Ready)
         => (last'.res = "NotConnected" /\ tasks' = tasks)]_vars

C11_UnsubscribeIdempotent ==
    (last.op = "stop_notify" /\ last.phase = "call" /\ client = NoClient)
        => (last.res = "ok" /\ tasks = EmptyBag)

Tokens(value) == split(value)
WellFormed(value) ==
    /\ ValidUtf8(value)
    /\ \A k \in 1..Len(Tokens(value)) : Parses(replace_NUL(Tokens(value)[k]))
\* the step is the call of decodeRoutine with a value
DecodeCall == last'.op = "decodeRoutine" /\ last'.phase = "call"

C13_MismatchRejected ==
    [][/\ (DecodeCall /\ data_queues # <<>> /\ ValidUtf8(last'.arg)
             /\ Len(Tokens(last'.arg)) # Len(data_queues))
            => (/\ last'.res = "mismatch_warning"
                /\ data_queues' = data_queues
                /\ applied' = applied)
       /\ (last'.op = "decodeRoutine" /\ last'.phase = "resume"
             /\ stack # <<>> /\ Top.pc = "mismatch_warning")
            => (/\ last'.res = "returned"
                /\ data_queues' = data_queues
                /\ applied' = applied)]_vars

\* the dialog of a value with one token, rejected on two buffers that hold
\* data, has been closed
C13_Witness ==
    /\ last.op = "decodeRoutine" /\ last.phase = "resume" /\ last.res = "returned"
    /\ last.arg = <<(<<"1">>)>>
    /\ Len(data_queues) = 2
    /\ applied[1] # <<>>

\* C14: a value of N tokens of which one does not parse as a number changes no
\* buffer: not when it arrives, and not when the dialog of the failed token is
\* closed.
C14_FrameAtomic ==
    [][(\/ (DecodeCall /\ ValidUtf8(last'.arg) /\ ~WellFormed(last'.arg)
              /\ Len(Tokens(last'.arg)) = Len(data_queues))
        \/ (last'.op = "decodeRoutine" /\ last'.phase = "resume"
              /\ stack # <<>> /\ Top.pc = "token_warning"))
         => data_queues' = data_queues]_vars

Min(a, b) == IF a < b THEN a ELSE b

C16_FifoEviction ==
    \A i \in 1..Len(data_queues) :
        Len(applied[i]) >= Capacity
            => /\ Len(data_queues[i]) = Capacity
               /\ \A k \in 1..Capacity :
                    data_queues[i][k] = applied[i][Len(applied[i]) - Capacity + k].value

\* 150 values 1..150 were appended: the buffer holds 51..150
C16_Witness ==
    /\ data_queues # <<>>
    /\ Len(applied[1]) = 150
    /\ data_queues[1][1] = 51
    /\ data_queues[1][Capacity] = 150

\* C17: a value that cannot be decoded does not end the subscription: no
\* activation of decodeRoutine closes the widget and no stop_notify is issued.
C17_DecodeErrorKeepsSubscription ==
    /\ \A k \in 1..Len(stack) : stack[k].pc # "closing"
    /\ \A t \in Pending : t.op # "stop_notify"
    /\ dw_open = "open"

\* C19: once a confirmation has created the buffers and completed, no step
\* changes their number or discards a value appended to them.
C19_ChannelCountFixed ==
    [][(data_queues # <<>> /\ ~isFirstPlot)
         => (/\ Len(data_queues') = Len(data_queues)
             /\ \A i \in 1..Len(data_queues) :
                  SubSeq(applied'[i], 1, Len(applied[i])) = applied[i])]_vars

\* C20: in every buffer the values appear in the order in which their
\* notifications arrived.
C20_ArrivalOrder ==
    \A i \in 1..Len(applied) :
        \A j, k \in 1..Len(applied[i]) :
            j < k => applied[i][j].frame < applied[i][k].frame

\* C21: in every state every buffer of data_queues holds at most capacity
\* values, whatever confirmations were made and whatever values were applied
\* or rejected.
C21_LengthAtMostCapacity ==
    \A i \in 1..Len(data_queues) : Len(data_queues[i]) <= Capacity

\* after a confirmation, a value was applied to both buffers, a second value
\* was rejected by the length check and a third one was applied
C21_Witness ==
    /\ Len(data_queues) = 2
    /\ arrived = 3
    /\ stack = <<>>
    /\ Len(applied[1]) = 2 /\ Len(applied[2]) = 2
    /\ applied[2][1].frame = 1 /\ applied[2][2].frame = 3

\* C23: BTManager(), BTManager.instance() and DisplayWidget.__init__ (which
\* calls instance()) always give the one instance: an object is created only
\* when none exists, never a second one, and a call made when the instance
\* exists leaves its client, and every BleakClient, as it was.
C23_Singleton ==
    [][(last'.op \in {"BTManager", "instance", "DisplayWidget"})
         => (/\ instance' = "mgr"
             /\ allocated' = 1
             /\ instance # None
                  => (/\ allocated' = allocated
                      /\ client' = client
                      /\ clients' = clients))]_vars

\* BTManager() was called again while the session held an established link
C23_Witness ==
    /\ last.op = "BTManager"
    /\ allocated = 1
    /\ client # NoClient
    /\ clients[client].linked

\* C22: when ConnectWidget.scanServices runs, the bt_manager of the connect
\* window is the instance the scan window took from BTManager and
\* connect_to_device is issued on it; the bt_manager of a display window is
\* that instance too.
C22_SharedManager ==
    /\ last.op = "ConnectWidget.scanServices"
         => (cw_bt_manager = instance /\ last.res = "pending")
    /\ dw_open # "none" => dw_bt_manager = instance
====
